---- MODULE Spec2Model ----
(***************************************************************************)
(* Model of src/funfuzz/js/inspect_shell.py: inspection of a SpiderMonkey  *)
(* shell binary (archOfBinary, shellSupports, testBinary,                  *)
(* testJsShellOrXpcshell, queryBuildConfiguration, verifyBinary).          *)
(*                                                                         *)
(* Text is modelled as a sequence of tokens; the text a sequence stands    *)
(* for is the concatenation of its tokens (tokens of the file-type output  *)
(* are separated by blanks).  Python values are records [t, n, s]: the     *)
(* type name, the numeric value (bool and int) and the text (str).         *)
(* An `assert` raises AssertionError when its expression is false.         *)
(***************************************************************************)
EXTENDS Integers, Sequences, FiniteSets, TLC

\* ------------------------------------------------------------ bounds ----
\* longest output of the file-type tool, in tokens
MaxFileTokens == 3
\* longest standard output of the shell, in tokens
MaxStdoutTokens == 2
\* largest ordinary exit code the shell is made to return
MaxExitCode == 4

\* ----------------------------------------------------- program constants
\* timeout of the `file` invocation in archOfBinary
FILE_TIMEOUT == 99

\* variant: testBinary with the timeout of the `file` call
TEST_TIMEOUT_short == FILE_TIMEOUT

\* timeout of every invocation made by testBinary
TEST_TIMEOUT == 999

\* default errorCode of constructVgCmdList
VG_ERROR_CODE == 77

\* str(binary) / str(shellPath): the path of the shell under inspection
ShellPath == "js"

\* ------------------------------------------------------- Python values --
PyBool(b) == [t |-> "bool", n |-> IF b THEN 1 ELSE 0, s |-> ""]
PyStr(x) == [t |-> "str", n |-> 0, s |-> x]
PyNone == [t |-> "NoneType", n |-> 0, s |-> ""]
\* the (out, return_code) tuple of testBinary; its parts are kept in `last`
PyTuple == [t |-> "tuple", n |-> 2, s |-> ""]

IsNumber(v) == v.t \in {"bool", "int"}

\* Python ==  (bool is a subtype of int: True == 1, False == 0)
PyEq(a, b) ==
    IF IsNumber(a) /\ IsNumber(b) THEN a.n = b.n
    ELSE a.t = b.t /\ a.n = b.n /\ a.s = b.s

\* Python truth value
Truthy(v) ==
    CASE IsNumber(v) -> v.n # 0
      [] v.t = "NoneType" -> FALSE
      [] v.t = "str" -> v.s # ""
      [] OTHER -> TRUE

\* variant: `a and b` that drops its right operand
PyAnd_left(a, b) == a

\* Python `a and b`: a when a is falsy, else b
PyAnd(a, b) == IF Truthy(a) THEN b ELSE a

\* Python `not a`
PyNot(a) == PyBool(~Truthy(a))

\* ------------------------------------------------- outcomes of a call ---
NoRet == [kind |-> "none", val |-> PyNone, exc |-> "", code |-> 0]
Return(v) == [kind |-> "return", val |-> v, exc |-> "", code |-> 0]
Raise(e) == [kind |-> "raise", val |-> PyNone, exc |-> e, code |-> 0]
RaiseCode(e, c) == [kind |-> "raise", val |-> PyNone, exc |-> e, code |-> c]

\* ------------------------------------------------------ text helpers ----
SeqsUpTo(S, n) == UNION {[1..k -> S] : k \in 0..n}

\* index of the first occurrence of tok in text, 0 when absent
RECURSIVE FirstIndex(_, _, _)
FirstIndex(text, tok, i) ==
    IF i > Len(text) THEN 0
    ELSE IF text[i] = tok THEN i
    ELSE FirstIndex(text, tok, i + 1)

\* needle in tok, for the markers the code searches
TokenContains(tok, needle) ==
    \/ tok = needle
    \/ tok = "Intel 80386 32-bit" /\ needle = "32-bit"

\* Python `needle in text`
In(needle, text) == \E i \in 1..Len(text) : TokenContains(text[i], needle)

Whitespace == {"\n"}

\* str.rstrip()
RECURSIVE Rstrip(_)
Rstrip(text) ==
    IF text # <<>> /\ text[Len(text)] \in Whitespace
    THEN Rstrip(SubSeq(text, 1, Len(text) - 1))
    ELSE text

RECURSIVE Lstrip(_)
Lstrip(text) ==
    IF text # <<>> /\ Head(text) \in Whitespace THEN Lstrip(Tail(text)) ELSE text

LowerToken(tok) == IF tok = "True" THEN "true" ELSE tok

\* variant: the output is not lower-cased
Lower_identity(text) == text

\* str.lower()
Lower(text) == [i \in 1..Len(text) |-> LowerToken(text[i])]

\* json.loads: white space around the document is skipped; of the texts the
\* shell tokens can form, the JSON documents are the literals true, false, null
JsonLoads(text) ==
    LET doc == Rstrip(Lstrip(text)) IN
    IF doc = <<"true">> THEN Return(PyBool(TRUE))
    ELSE IF doc = <<"false">> THEN Return(PyBool(FALSE))
    ELSE IF doc = <<"null">> THEN Return(PyNone)
    ELSE Raise("JSONDecodeError")

\* ------------------------------------------------------- environment ----
Platforms == {"Windows", "Linux"}

FileTokens == {":", "32-bit", "i386", "64-bit", "MS Windows", "Intel 80386 32-bit"}
FileStdouts == SeqsUpTo(FileTokens, MaxFileTokens)

ShellTokens == {"true", "True", "false", "null", "\n"}
ShellStdouts == SeqsUpTo(ShellTokens, MaxStdoutTokens)

\* returncode of a completed process: an exit code, -1 for a process killed
\* by signal 1, 139 for one that reports a segmentation fault
ExitCodes == (0..MaxExitCode) \cup {0 - 1, 139}

\* what subprocess.run can do: complete, or raise TimeoutExpired / OSError
Completed(out, rc) == [status |-> "completed", stdout |-> out, returncode |-> rc]
Failed(e) == [status |-> e, stdout |-> <<>>, returncode |-> 0]
NoResult == [status |-> "none", stdout |-> <<>>, returncode |-> 0]
RunFailures == {Failed("TimeoutExpired"), Failed("OSError")}

FileRuns == {Completed(out, 0) : out \in FileStdouts} \cup RunFailures
ShellRuns == {Completed(out, rc) : out \in ShellStdouts, rc \in ExitCodes} \cup RunFailures

BuildOpts == [enable32 : BOOLEAN, enableDbg : BOOLEAN, enableMoreDeterministic : BOOLEAN,
              buildWithAsan : BOOLEAN, enableSimulatorArm32 : BOOLEAN,
              enableSimulatorArm64 : BOOLEAN]

\* value of `sh` while no verifyBinary call is in progress
NoShell == [enable32 |-> FALSE, enableDbg |-> FALSE, enableMoreDeterministic |-> FALSE,
            buildWithAsan |-> FALSE, enableSimulatorArm32 |-> FALSE,
            enableSimulatorArm64 |-> FALSE]

ConfigFields == {"debug", "more-deterministic", "asan", "arm-simulator"}

\* ------------------------------------------------ the module's functions
\* constructVgCmdList(errorCode)
constructVgCmdList(errorCode, plat) ==
    <<"valgrind">>
    \o (IF plat = "Darwin" THEN <<"--dsymutil=yes">> ELSE <<>>)
    \o <<"--error-exitcode=" \o ToString(errorCode),
         "--vex-iropt-register-updates=allregs-at-mem-access",
         "--gen-suppressions=all", "--leak-check=full",
         "--errors-for-leak-kinds=definite", "--show-leak-kinds=definite",
         "--show-possibly-lost=no", "--num-callers=50">>

\* test_cmd of testBinary
TestCmd(args, useValgrind, plat) ==
    (IF useValgrind THEN constructVgCmdList(VG_ERROR_CODE, plat) ELSE <<>>)
    \o <<ShellPath>> \o args

\* the command line of archOfBinary
FileCmd == <<"file", ShellPath>>

\* the script of queryBuildConfiguration
QueryArgs(parameter) ==
    <<"-e", "print(getBuildConfiguration()[\"" \o parameter \o "\"])">>

SupportArgs == <<"-e", "Components">>

\* one subprocess.run call: what was run, how, and how it ended
Invocation(argv, timeout, stderr, run) ==
    [argv |-> argv, timeout |-> timeout, stderr |-> stderr, status |-> run.status]

FileInvocation(run) == Invocation(FileCmd, FILE_TIMEOUT, "inherit", run)
TestInvocation(args, useValgrind, stderr, plat, run) ==
    Invocation(TestCmd(args, useValgrind, plat), TEST_TIMEOUT, stderr, run)

\* unsplit_file_type.split(":", 1)[1]; IndexError without a colon
HasColon(text) == FirstIndex(text, ":", 1) # 0
Filetype(text) == SubSeq(text, FirstIndex(text, ":", 1) + 1, Len(text))

\* variant: archOfBinary without the two asserts of the non-Windows branch
archOfBinary_noassert(run, plat) ==
    IF run.status # "completed" THEN Raise(run.status)
    ELSE IF ~HasColon(run.stdout) THEN Raise("IndexError")
    ELSE LET filetype == Filetype(run.stdout) IN
      IF plat = "Windows" THEN
        IF ~In("MS Windows", filetype) THEN Raise("AssertionError")
        ELSE Return(IF In("Intel 80386 32-bit", filetype) THEN PyStr("32") ELSE PyStr("64"))
      ELSE
        IF In("32-bit", filetype) \/ In("i386", filetype) THEN Return(PyStr("32"))
        ELSE IF In("64-bit", filetype) THEN Return(PyStr("64"))
        ELSE Return(PyNone)

\* archOfBinary(binary), given what the `file` process did
archOfBinary(run, plat) ==
    IF run.status # "completed" THEN Raise(run.status)
    ELSE IF ~HasColon(run.stdout) THEN Raise("IndexError")
    ELSE LET filetype == Filetype(run.stdout) IN
      IF plat = "Windows" THEN
        IF ~In("MS Windows", filetype) THEN Raise("AssertionError")
        ELSE Return(IF In("Intel 80386 32-bit", filetype) THEN PyStr("32") ELSE PyStr("64"))
      ELSE
        IF In("32-bit", filetype) \/ In("i386", filetype) THEN
          IF In("64-bit", filetype) THEN Raise("AssertionError")
          ELSE Return(PyStr("32"))
        ELSE IF In("64-bit", filetype) THEN
          IF In("32-bit", filetype) THEN Raise("AssertionError")
          ELSE Return(PyStr("64"))
        ELSE Return(PyNone)

\* variant: testBinary that swallows the exception of subprocess.run
testBinary_swallow(run) ==
    IF run.status = "completed" THEN Return(PyTuple) ELSE Return(PyTuple)

\* testBinary: returns (out, return_code) of a completed process, whatever
\* the return code; an exception of subprocess.run propagates
testBinary(run) ==
    IF run.status = "completed" THEN Return(PyTuple) ELSE Raise(run.status)

\* variant: shellSupports that takes return code 4 as non-support too
shellSupports_upto4(run) ==
    LET r == testBinary(run) IN
    IF r.kind = "raise" THEN r
    ELSE IF run.returncode = 0 THEN Return(PyBool(TRUE))
    ELSE IF 1 <= run.returncode /\ run.returncode <= 4 THEN Return(PyBool(FALSE))
    ELSE RaiseCode("Exception", run.returncode)

\* shellSupports(shellPath, args)
shellSupports(run) ==
    LET r == testBinary(run) IN
    IF r.kind = "raise" THEN r
    ELSE IF run.returncode = 0 THEN Return(PyBool(TRUE))
    ELSE IF 1 <= run.returncode /\ run.returncode <= 3 THEN Return(PyBool(FALSE))
    ELSE RaiseCode("Exception", run.returncode)

\* variant: testJsShellOrXpcshell with the two kinds exchanged
testJsShellOrXpcshell_swapped(run) ==
    LET r == shellSupports(run) IN
    IF r.kind = "raise" THEN r
    ELSE Return(IF Truthy(r.val) THEN PyStr("jsShell") ELSE PyStr("xpcshell"))

\* testJsShellOrXpcshell(s)
testJsShellOrXpcshell(run) ==
    LET r == shellSupports(run) IN
    IF r.kind = "raise" THEN r
    ELSE Return(IF Truthy(r.val) THEN PyStr("xpcshell") ELSE PyStr("jsShell"))

\* queryBuildConfiguration(s, parameter)
queryBuildConfiguration(run) ==
    LET r == testBinary(run) IN
    IF r.kind = "raise" THEN r
    ELSE JsonLoads(Lower(Rstrip(run.stdout)))

\* the expressions of the six assert statements of verifyBinary
ArchAssert(arch, opts) ==
    PyEq(arch, IF opts.enable32 THEN PyStr("32") ELSE PyStr("64"))

\* variant: the debug report compared with enableMoreDeterministic
DebugAssert_wrongfield(q, opts) == PyEq(q, PyBool(opts.enableMoreDeterministic))

\* queryBuildConfiguration(binary, "debug") == sh.build_opts.enableDbg
DebugAssert(q, opts) == PyEq(q, PyBool(opts.enableDbg))

DeterministicAssert(q, opts) == PyEq(q, PyBool(opts.enableMoreDeterministic))
AsanAssert(q, opts) == PyEq(q, PyBool(opts.buildWithAsan))
Arm32Assert(q, opts) ==
    PyEq(PyAnd(q, PyBool(opts.enable32)), PyBool(opts.enableSimulatorArm32))
Arm64Assert(q, opts) ==
    PyEq(PyAnd(q, PyNot(PyBool(opts.enable32))), PyBool(opts.enableSimulatorArm64))

\* variant: an assert that never raises
AssertStmt_stripped(probe, holds) ==
    IF probe.kind = "raise" THEN probe ELSE NoRet

\* `assert <expression over a probe>`: the probe's exception propagates, a
\* false expression raises AssertionError, otherwise control continues
AssertStmt(probe, holds) ==
    IF probe.kind = "raise" THEN probe
    ELSE IF holds THEN NoRet
    ELSE Raise("AssertionError")

\* -------------------------------------------------------------- state ---
VARIABLES
    platform,   \* platform.system() of the host
    op,         \* the function of the module being called, "" before any call
    pc,         \* "idle", "step1" .. "step6" inside verifyBinary, "done"
    sh,         \* sh.build_opts of the verifyBinary call
    calls,      \* the subprocess.run calls made by the current call, in order
    reported,   \* the values the probes of verifyBinary returned, in order
    last,       \* what the process of a single-probe function did
    ret         \* how the current call ended: return value or exception

vars == <<platform, op, pc, sh, calls, reported, last, ret>>

Init ==
    /\ platform \in Platforms
    /\ op = ""
    /\ pc = "idle"
    /\ sh = NoShell
    /\ calls = <<>>
    /\ reported = <<>>
    /\ last = NoResult
    /\ ret = NoRet

\* a new call can start when none is in progress
CanCall == pc = "idle"

\* a function that runs one process and returns
SingleProbe(name, call, run, outcome) ==
    /\ CanCall
    /\ op' = name
    /\ pc' = "done"
    /\ sh' = NoShell
    /\ calls' = <<call>>
    /\ reported' = <<>>
    /\ last' = run
    /\ ret' = outcome
    /\ UNCHANGED platform

CallArchOfBinary ==
    \E run \in FileRuns :
        SingleProbe("archOfBinary", FileInvocation(run), run, archOfBinary(run, platform))

CallTestBinary ==
    \E run \in ShellRuns, useValgrind \in BOOLEAN, stderr \in {"STDOUT", "DEVNULL"} :
        SingleProbe("testBinary",
                    TestInvocation(SupportArgs, useValgrind, stderr, platform, run),
                    run, testBinary(run))

CallShellSupports ==
    \E run \in ShellRuns, args \in {SupportArgs, <<"-j", "-e", "42">>} :
        SingleProbe("shellSupports",
                    TestInvocation(args, FALSE, "STDOUT", platform, run),
                    run, shellSupports(run))

CallTestJsShellOrXpcshell ==
    \E run \in ShellRuns :
        SingleProbe("testJsShellOrXpcshell",
                    TestInvocation(SupportArgs, FALSE, "STDOUT", platform, run),
                    run, testJsShellOrXpcshell(run))

CallQueryBuildConfiguration ==
    \E run \in ShellRuns, parameter \in ConfigFields :
        SingleProbe("queryBuildConfiguration",
                    TestInvocation(QueryArgs(parameter), FALSE, "DEVNULL", platform, run),
                    run, queryBuildConfiguration(run))

\* verifyBinary(sh) is entered
CallVerifyBinary ==
    /\ CanCall
    /\ \E opts \in BuildOpts : sh' = opts
    /\ op' = "verifyBinary"
    /\ pc' = "step1"
    /\ calls' = <<>>
    /\ reported' = <<>>
    /\ last' = NoResult
    /\ ret' = NoRet
    /\ UNCHANGED platform

\* one assert statement of verifyBinary: the probe is run, its value kept,
\* and the assert either raises (ending the call) or lets control continue
VerifyStep(call, probe, holds, nextpc) ==
    \E out \in {AssertStmt(probe, holds)} :
        /\ calls' = Append(calls, call)
        /\ reported' = IF probe.kind = "return" THEN Append(reported, probe.val)
                       ELSE reported
        /\ IF out.kind = "raise" THEN pc' = "done" /\ ret' = out
           ELSE IF nextpc = "done" THEN pc' = "done" /\ ret' = Return(PyNone)
           ELSE pc' = nextpc /\ ret' = ret
        /\ UNCHANGED <<platform, op, sh, last>>

QueryInvocation(parameter, run) ==
    TestInvocation(QueryArgs(parameter), FALSE, "DEVNULL", platform, run)

\* assert archOfBinary(binary) == ("32" if sh.build_opts.enable32 else "64")
VerifyArch ==
    /\ pc = "step1"
    /\ \E run \in FileRuns : \E a \in {archOfBinary(run, platform)} :
        VerifyStep(FileInvocation(run), a, ArchAssert(a.val, sh), "step2")

\* assert queryBuildConfiguration(binary, "debug") == sh.build_opts.enableDbg
VerifyDebug ==
    /\ pc = "step2"
    /\ \E run \in ShellRuns : \E q \in {queryBuildConfiguration(run)} :
        VerifyStep(QueryInvocation("debug", run), q, DebugAssert(q.val, sh), "step3")

\* assert queryBuildConfiguration(binary, "more-deterministic") == ...
VerifyDeterministic ==
    /\ pc = "step3"
    /\ \E run \in ShellRuns : \E q \in {queryBuildConfiguration(run)} :
        VerifyStep(QueryInvocation("more-deterministic", run), q,
                   DeterministicAssert(q.val, sh), "step4")

\* assert queryBuildConfiguration(binary, "asan") == sh.build_opts.buildWithAsan
VerifyAsan ==
    /\ pc = "step4"
    /\ \E run \in ShellRuns : \E q \in {queryBuildConfiguration(run)} :
        VerifyStep(QueryInvocation("asan", run), q, AsanAssert(q.val, sh), "step5")

\* assert (queryBuildConfiguration(binary, "arm-simulator") and enable32) == ...
VerifyArm32 ==
    /\ pc = "step5"
    /\ \E run \in ShellRuns : \E q \in {queryBuildConfiguration(run)} :
        VerifyStep(QueryInvocation("arm-simulator", run), q, Arm32Assert(q.val, sh), "step6")

\* assert (queryBuildConfiguration(binary, "arm-simulator") and not enable32) == ...
VerifyArm64 ==
    /\ pc = "step6"
    /\ \E run \in ShellRuns : \E q \in {queryBuildConfiguration(run)} :
        VerifyStep(QueryInvocation("arm-simulator", run), q, Arm64Assert(q.val, sh), "done")

\* the caller takes the result or the exception of the finished call; nothing
\* of the call is retained
Finish ==
    /\ pc = "done"
    /\ pc' = "idle"
    /\ op' = ""
    /\ sh' = NoShell
    /\ calls' = <<>>
    /\ reported' = <<>>
    /\ last' = NoResult
    /\ ret' = NoRet
    /\ UNCHANGED platform

Next ==
    \/ CallArchOfBinary
    \/ CallTestBinary
    \/ CallShellSupports
    \/ CallTestJsShellOrXpcshell
    \/ CallQueryBuildConfiguration
    \/ CallVerifyBinary
    \/ VerifyArch
    \/ VerifyDebug
    \/ VerifyDeterministic
    \/ VerifyAsan
    \/ VerifyArm32
    \/ VerifyArm64
    \/ Finish

Spec == Init /\ [][Next]_vars

\* ============================================================ claims ====
IsVerify == op = "verifyBinary"
Done == pc = "done"
Returned == Done /\ ret.kind = "return"
Raised == Done /\ ret.kind = "raise"
AllCompleted == \A i \in 1..Len(calls) : calls[i].status = "completed"

\* the k-th probe of verifyBinary returned a value, and it is the boolean b
Reports(k, b) ==
    /\ k <= Len(reported)
    /\ reported[k].t = "bool"
    /\ (reported[k].n = 1) = b

\* the six checks of verifyBinary, over the values its probes returned
Check1 ==
    /\ Len(reported) >= 1
    /\ reported[1].t = "str"
    /\ reported[1].s = (IF sh.enable32 THEN "32" ELSE "64")
Check2 == \E b \in BOOLEAN : Reports(2, b) /\ b = sh.enableDbg
Check3 == \E b \in BOOLEAN : Reports(3, b) /\ b = sh.enableMoreDeterministic
Check4 == \E b \in BOOLEAN : Reports(4, b) /\ b = sh.buildWithAsan
Check5 == \E b \in BOOLEAN : Reports(5, b) /\ (b /\ sh.enable32) = sh.enableSimulatorArm32
Check6 == \E b \in BOOLEAN : Reports(6, b) /\ (b /\ ~sh.enable32) = sh.enableSimulatorArm64
CheckHolds(k) ==
    CASE k = 1 -> Check1 [] k = 2 -> Check2 [] k = 3 -> Check3
      [] k = 4 -> Check4 [] k = 5 -> Check5 [] k = 6 -> Check6
      [] OTHER -> FALSE
AllSixChecks == \A k \in 1..6 : CheckHolds(k)

\* every build-configuration query made so far gave a JSON boolean
BooleansReported ==
    \A k \in 2..Len(calls) : k <= Len(reported) /\ reported[k].t = "bool"

\* C1: when every invocation completed and the shell reported JSON booleans,
\* verifyBinary returns normally exactly when all six checks hold, and raises
\* in every other case.
C1_VerifyIffSixChecks ==
    (IsVerify /\ Done /\ AllCompleted /\ BooleansReported) =>
        /\ (ret.kind = "return") <=> AllSixChecks
        /\ (ret.kind = "raise") <=> ~AllSixChecks

\* the all-false report, a 64-bit description and the all-false configuration
\* are accepted
C1_Witness ==
    /\ IsVerify /\ Returned /\ AllCompleted
    /\ sh = NoShell
    /\ Len(reported) = 6
    /\ reported[1].s = "64"
    /\ \A k \in 2..6 : Reports(k, FALSE)

\* the command lines of the six probes, in the order of the asserts
VerifyOrder ==
    << <<"file", "js">>,
       <<"js", "-e", "print(getBuildConfiguration()[\"debug\"])">>,
       <<"js", "-e", "print(getBuildConfiguration()[\"more-deterministic\"])">>,
       <<"js", "-e", "print(getBuildConfiguration()[\"asan\"])">>,
       <<"js", "-e", "print(getBuildConfiguration()[\"arm-simulator\"])">>,
       <<"js", "-e", "print(getBuildConfiguration()[\"arm-simulator\"])">> >>

\* C2: verifyBinary probes in the fixed order architecture, debug,
\* more-deterministic, asan, arm-simulator, arm-simulator; a probe is invoked
\* only after every earlier check held, a raise comes from the last probe
\* invoked, and with enable32 set and a detected "64" the file tool is the only
\* process ever invoked.
C2_FailFastOrder ==
    IsVerify =>
        /\ Len(calls) <= 6
        /\ \A i \in 1..Len(calls) : calls[i].argv = VerifyOrder[i]
        /\ \A i \in 1..(Len(calls) - 1) : CheckHolds(i)
        /\ Raised => (Len(calls) >= 1 /\ ~CheckHolds(Len(calls)))
        /\ (Len(reported) >= 1 /\ sh.enable32 /\ reported[1].s = "64") =>
               (Raised /\ Len(calls) = 1)

C2_Witness ==
    /\ IsVerify /\ Raised
    /\ sh.enable32
    /\ Len(reported) = 1 /\ reported[1].s = "64"
    /\ Len(calls) = 1 /\ calls[1].argv[1] = "file"
    /\ ret.exc = "AssertionError"

\* C3: shellSupports gives True for return code 0, False for 1, 2 and 3, and
\* for every other return code raises an exception carrying the code.
C3_ExitCodeClassification ==
    (op = "shellSupports" /\ Done /\ last.status = "completed") =>
        /\ last.returncode = 0 =>
               (ret.kind = "return" /\ ret.val.t = "bool" /\ ret.val.n = 1)
        /\ last.returncode \in {1, 2, 3} =>
               (ret.kind = "return" /\ ret.val.t = "bool" /\ ret.val.n = 0)
        /\ last.returncode \notin {0, 1, 2, 3} =>
               (ret.kind = "raise" /\ ret.exc = "Exception"
                /\ ret.code = last.returncode)

C3_Witness ==
    /\ op = "shellSupports" /\ Raised
    /\ last.status = "completed" /\ last.returncode = 139
    /\ ret.code = 139

\* the file-type description and its bitness markers
HasDescription == last.status = "completed" /\ \E i \in 1..Len(last.stdout) : last.stdout[i] = ":"
Description == Filetype(last.stdout)
Marker32 == \E i \in 1..Len(Description) :
                Description[i] \in {"32-bit", "i386", "Intel 80386 32-bit"}
Marker64 == \E i \in 1..Len(Description) : Description[i] = "64-bit"
ArchDone == op = "archOfBinary" /\ Done /\ platform # "Windows" /\ HasDescription

\* C4: on a non-Windows host archOfBinary fails when the description has
\* neither a 32-bit nor a 64-bit marker.
C4_NoMarkerRaises ==
    (ArchDone /\ ~Marker32 /\ ~Marker64) => ret.kind = "raise"

\* C5: on a non-Windows host a description with a 32-bit marker and the 64-bit
\* marker makes archOfBinary raise; with only a 32-bit marker it returns "32",
\* with only the 64-bit marker "64".
C5_MarkersDecide ==
    ArchDone =>
        /\ (Marker32 /\ Marker64) => ret.kind = "raise"
        /\ (Marker32 /\ ~Marker64) =>
               (ret.kind = "return" /\ ret.val.t = "str" /\ ret.val.s = "32")
        /\ (~Marker32 /\ Marker64) =>
               (ret.kind = "return" /\ ret.val.t = "str" /\ ret.val.s = "64")

C5_Witness ==
    /\ ArchDone /\ Marker32 /\ Marker64
    /\ ret.kind = "raise" /\ ret.exc = "AssertionError"

\* the standard output is one JSON literal, in any letter case, with white
\* space around it
JsonText(out) ==
    \E i \in 1..Len(out) :
        /\ out[i] \in {"true", "True", "false", "null"}
        /\ \A j \in 1..Len(out) : j # i => out[j] = "\n"
QueryDone == op = "queryBuildConfiguration" /\ Done

\* C6 as stated: queryBuildConfiguration returns a value only when the process
\* completed with exit code 0 and its output parsed; a non-zero exit code, a
\* timeout or malformed output always raises.
C6_AsStated ==
    QueryDone =>
        /\ ret.kind = "return" =>
               (last.status = "completed" /\ last.returncode = 0
                /\ JsonText(last.stdout))
        /\ (last.status # "completed" \/ last.returncode # 0
            \/ ~JsonText(last.stdout)) => ret.kind = "raise"

\* C6 amended: queryBuildConfiguration returns a value exactly when the
\* process completed (with any exit code) and its output parsed as JSON; a
\* timeout, a launch failure or malformed output always raises.
C6_ReturnsIffParsed ==
    QueryDone =>
        /\ (ret.kind = "return") <=>
               (last.status = "completed" /\ JsonText(last.stdout))
        /\ (ret.kind = "raise") <=>
               (last.status # "completed" \/ ~JsonText(last.stdout))
        /\ last.status # "completed" => ret.exc = last.status

C6_Witness ==
    /\ QueryDone /\ ret.kind = "return"
    /\ last.returncode = 3
    /\ last.stdout = <<"True", "\n">>
    /\ ret.val.t = "bool" /\ ret.val.n = 1

IsShortTier(t) == t < 100
IsLongTier(t) == t >= 100

\* C7 as stated: a feature support probe always runs with the short timeout, a
\* build-configuration query or general test with the longer one.
C7_AsStated ==
    \A i \in 1..Len(calls) :
        /\ op \in {"shellSupports", "testJsShellOrXpcshell"} =>
               IsShortTier(calls[i].timeout)
        /\ op \in {"queryBuildConfiguration", "testBinary"} =>
               IsLongTier(calls[i].timeout)

\* C7 amended: the timeout follows the program invoked: the file-type tool
\* runs with 99 seconds, and every invocation of the shell (feature support
\* probe, build-configuration query or general test) with 999 seconds.
C7_TimeoutByProgram ==
    \A i \in 1..Len(calls) :
        /\ calls[i].argv[1] = "file" <=> calls[i].timeout = 99
        /\ calls[i].argv[1] # "file" <=> calls[i].timeout = 999

C7_Witness ==
    /\ op = "shellSupports" /\ Done
    /\ Len(calls) = 1 /\ calls[1].timeout = 999

\* C8: testJsShellOrXpcshell runs the shell once with -e Components; return
\* code 0 gives "xpcshell", 1, 2 and 3 give "jsShell", any other code raises.
C8_ShellKind ==
    (op = "testJsShellOrXpcshell" /\ Done) =>
        /\ Len(calls) = 1
        /\ calls[1].argv = <<"js", "-e", "Components">>
        /\ last.status = "completed" =>
            /\ last.returncode = 0 => (ret.kind = "return" /\ ret.val.s = "xpcshell")
            /\ last.returncode \in {1, 2, 3} =>
                   (ret.kind = "return" /\ ret.val.s = "jsShell")
            /\ last.returncode \notin {0, 1, 2, 3} => ret.kind = "raise"

C8_Witness ==
    /\ op = "testJsShellOrXpcshell" /\ Returned
    /\ last.returncode = 2
    /\ ret.val.s = "jsShell"

\* C9: inside verifyBinary a probe that timed out or failed is the last probe
\* invoked, verifyBinary ends with that very error, and it never returns
\* normally after a failed probe.
C9_NoRetryNoSwallow ==
    IsVerify =>
        /\ \A i \in 1..(Len(calls) - 1) : calls[i].status = "completed"
        /\ \A i \in 1..Len(calls) :
               calls[i].status # "completed" =>
                   (Raised /\ ret.exc = calls[i].status /\ i = Len(calls))
        /\ ret.kind = "return" => AllCompleted

C9_Witness ==
    /\ IsVerify /\ Raised
    /\ Len(calls) = 3
    /\ calls[3].status = "TimeoutExpired"
    /\ ret.exc = "TimeoutExpired"

\* C10: verifyBinary never returns normally for a configuration with
\* enableSimulatorArm32 and not enable32, with enableSimulatorArm64 and
\* enable32, or with both simulators enabled.
C10_InconsistentConfigRejected ==
    (IsVerify /\ Returned) =>
        /\ ~(sh.enableSimulatorArm32 /\ ~sh.enable32)
        /\ ~(sh.enableSimulatorArm64 /\ sh.enable32)
        /\ ~(sh.enableSimulatorArm32 /\ sh.enableSimulatorArm64)

C10_Witness ==
    /\ IsVerify /\ Raised
    /\ sh.enableSimulatorArm32 /\ ~sh.enable32
    /\ Len(calls) = 5 /\ Len(reported) = 5
    /\ Reports(5, TRUE)
    /\ ret.exc = "AssertionError"

====
